---- MODULE Spec2Model ----
(***************************************************************************)
(* pydyndns: one invocation of run() after another against one cache file. *)
(* An address is [v |-> 4 or 6, g |-> its octets or 16-bit groups]; a text *)
(* (a Python str) is a sequence of one-character strings, a host name text *)
(* a sequence of labels and "." separators.                                *)
(***************************************************************************)
EXTENDS Integers, Sequences, FiniteSets, TLC

(* ------------------------------ bounds --------------------------------- *)

\* Most endpoints getaddrinfo returns for the nameserver.
MaxEndpoints == 2

\* Most SOA records the resolver returns for the zone.
MaxSOA == 2

\* The largest number of addresses of one family on one interface in the
\* runs of the collection of addresses on its own.
MaxIfaceLen == 2

(* ------------------------- texts and numbers --------------------------- *)

Digit == <<"0", "1", "2", "3", "4", "5", "6", "7", "8", "9",
           "a", "b", "c", "d", "e", "f">>

UpperHex == <<"A", "B", "C", "D", "E", "F">>

\* '%d' % n and '%x' % n: the digits of n in the base, most significant first.
RECURSIVE NumText(_, _)
NumText(n, base) ==
    IF n < base THEN <<Digit[n + 1]>>
    ELSE NumText(n \div base, base) \o <<Digit[(n % base) + 1]>>

\* sep.join(parts)
RECURSIVE Join(_, _)
Join(parts, sep) ==
    IF Len(parts) = 0 THEN <<>>
    ELSE IF Len(parts) = 1 THEN parts[1]
    ELSE parts[1] \o <<sep>> \o Join(Tail(parts), sep)

\* text.split(sep): always at least one part, empty parts kept.
RECURSIVE Split(_, _)
Split(text, sep) ==
    IF \A i \in 1..Len(text) : text[i] # sep THEN <<text>>
    ELSE LET k == CHOOSE i \in 1..Len(text) :
                      text[i] = sep /\ \A j \in 1..(i - 1) : text[j] # sep
         IN  <<SubSeq(text, 1, k - 1)>> \o Split(SubSeq(text, k + 1, Len(text)), sep)

\* The value of one digit character, -1 when it is no digit of the base.
DigitVal(c, base) ==
    IF \E i \in 1..base : Digit[i] = c
    THEN (CHOOSE i \in 1..base : Digit[i] = c) - 1
    ELSE IF base = 16 /\ \E i \in 1..6 : UpperHex[i] = c
    THEN (CHOOSE i \in 1..6 : UpperHex[i] = c) + 9
    ELSE -1

\* int(text, base) of a text made of digits of the base.
RECURSIVE TextNum(_, _)
TextNum(text, base) ==
    IF Len(text) = 0 THEN 0
    ELSE TextNum(SubSeq(text, 1, Len(text) - 1), base) * base
         + DigitVal(text[Len(text)], base)

AllDigits(text, base) == \A i \in 1..Len(text) : DigitVal(text[i], base) >= 0

(* ------------------- ipaddress: str() and ip_address() ----------------- *)

V4(a, b, c, d) == [v |-> 4, g |-> <<a, b, c, d>>]

V6(g) == [v |-> 6, g |-> g]

NoAddress == [v |-> 0, g |-> <<>>]

\* IPv4Address.__str__: dotted decimal.
IPv4Str(a) == Join([i \in 1..4 |-> NumText(a.g[i], 10)], ".")

\* Length of the run of zero groups that starts at group i.
RECURSIVE ZeroRun(_, _)
ZeroRun(g, i) ==
    IF i > Len(g) \/ g[i] # 0 THEN 0 ELSE 1 + ZeroRun(g, i + 1)

\* IPv6Address.__str__: lower-case hex groups without leading zeros, the
\* first longest run of two or more zero groups written "::".
IPv6Str(a) ==
    LET g    == a.g
        best == CHOOSE n \in 0..8 :
                    /\ \E i \in 1..8 : ZeroRun(g, i) = n
                    /\ \A i \in 1..8 : ZeroRun(g, i) <= n
        hex(lo, hi) == Join([i \in 1..(hi - lo + 1) |-> NumText(g[lo + i - 1], 16)], ":")
    IN  IF best > 1
        THEN LET s == CHOOSE i \in 1..8 :
                          /\ ZeroRun(g, i) = best
                          /\ \A j \in 1..(i - 1) : ZeroRun(g, j) < best
             IN  hex(1, s - 1) \o <<":", ":">> \o hex(s + best, 8)
        ELSE hex(1, 8)

\* str(address), as IPAddressEnabledJSONEncoder.default calls it.
IPStr(a) == IF a.v = 4 THEN IPv4Str(a) ELSE IPv6Str(a)

\* IPv4Address(text): four decimal octets, no empty one, at most three
\* digits, no leading zero, at most 255.
OctetOk(t) ==
    /\ Len(t) \in 1..3
    /\ AllDigits(t, 10)
    /\ (Len(t) > 1 => t[1] # "0")
    /\ TextNum(t, 10) <= 255

ParseIPv4(text) ==
    LET parts == Split(text, ".")
    IN  IF Len(parts) = 4 /\ \A i \in 1..4 : OctetOk(parts[i])
        THEN [ok |-> TRUE, a |-> [v |-> 4, g |-> [i \in 1..4 |-> TextNum(parts[i], 10)]]]
        ELSE [ok |-> FALSE, a |-> NoAddress]

HextetOk(t) == Len(t) \in 1..4 /\ AllDigits(t, 16)

\* IPv6Address(text): _ip_int_from_string.
ParseIPv6(text) ==
    LET raw   == Split(text, ":")
        last  == raw[Len(raw)]
        emb   == \E i \in 1..Len(last) : last[i] = "."
        p4    == ParseIPv4(last)
        parts == IF emb /\ p4.ok
                 THEN SubSeq(raw, 1, Len(raw) - 1)
                      \o <<NumText(p4.a.g[1] * 256 + p4.a.g[2], 16),
                           NumText(p4.a.g[3] * 256 + p4.a.g[4], 16)>>
                 ELSE raw
        n     == Len(parts)
        skips == {i \in 2..(n - 1) : parts[i] = <<>>}
        bad   == [ok |-> FALSE, a |-> NoAddress]
    IN  IF Len(raw) < 3 \/ (emb /\ ~p4.ok) \/ n > 9 \/ Cardinality(skips) > 1
        THEN bad
        ELSE IF skips # {}
        THEN LET k   == CHOOSE i \in skips : TRUE
                 hi0 == k - 1
                 lo0 == n - k
                 hi  == IF parts[1] = <<>> THEN hi0 - 1 ELSE hi0
                 lo  == IF parts[n] = <<>> THEN lo0 - 1 ELSE lo0
             IN  IF \/ (parts[1] = <<>> /\ hi # 0)
                    \/ (parts[n] = <<>> /\ lo # 0)
                    \/ 8 - (hi + lo) < 1
                    \/ \E i \in 1..hi : ~HextetOk(parts[i])
                    \/ \E i \in (n - lo + 1)..n : ~HextetOk(parts[i])
                 THEN bad
                 ELSE [ok |-> TRUE,
                       a  |-> [v |-> 6,
                               g |-> [i \in 1..8 |->
                                        IF i <= hi THEN TextNum(parts[i], 16)
                                        ELSE IF i > 8 - lo
                                        THEN TextNum(parts[n - (8 - i)], 16)
                                        ELSE 0]]]
        ELSE IF n # 8 \/ \E i \in 1..n : ~HextetOk(parts[i])
        THEN bad
        ELSE [ok |-> TRUE, a |-> [v |-> 6, g |-> [i \in 1..8 |-> TextNum(parts[i], 16)]]]

\* ipaddress.ip_address(text): IPv4 first, then IPv6, else ValueError (~ok).
ip_address(text) ==
    LET p4 == ParseIPv4(text)
    IN  IF p4.ok THEN p4 ELSE ParseIPv6(text)

(* ----------------------- dns.name: the host name ------------------------ *)

\* dns.name.from_text(text): the labels of the name, made absolute by the
\* root label "".
from_text(labels) == Append(labels, "")

\* Name.to_text(): the labels joined by ".", so an absolute name ends in ".".
to_text(name) ==
    Join([i \in 1..Len(name) |-> IF name[i] = "" THEN <<>> ELSE <<name[i]>>], ".")

\* Name.parent(): the name without its first label.
parent(name) == Tail(name)

\* Name.relativize(zone): what is left of the name before the zone.
relativize(name, zone) == SubSeq(name, 1, Len(name) - Len(zone))

(* --------------------------- PlatformPolicy ---------------------------- *)

Platforms == {"posix", "nt", "unknown"}

\* permanent_ipv6_addresses with POSIX taking the first address, as Windows does.
PermanentFirstOnPosix(p, addrs) ==
    IF p \in {"posix", "nt"}
    THEN IF Len(addrs) = 0 THEN <<>> ELSE <<addrs[1]>>
    ELSE addrs

\* Platform.permanent_ipv6_addresses of the three platforms.
permanent_ipv6_addresses(p, addrs) ==
    IF p = "posix"
    THEN IF Len(addrs) = 0 THEN <<>> ELSE <<addrs[Len(addrs)]>>
    ELSE IF p = "nt"
    THEN IF Len(addrs) = 0 THEN <<>> ELSE <<addrs[1]>>
    ELSE addrs

(* ------------------------- AddressFamilyPolicy ------------------------- *)

\* address in network: the first plen bits of the groups (w bits each) agree.
RECURSIVE InNet(_, _, _, _, _)
InNet(g, base, plen, w, i) ==
    IF plen <= 0 THEN TRUE
    ELSE IF plen >= w
    THEN g[i] = base[i] /\ InNet(g, base, plen - w, w, i + 1)
    ELSE g[i] \div (2 ^ (w - plen)) = base[i] \div (2 ^ (w - plen))

In4(a, base, plen) == InNet(a.g, base, plen, 8, 1)

In6(a, base, plen) == InNet(a.g, base, plen, 16, 1)

\* ipaddress._IPv4Constants._private_networks
Private4 == { <<<<0, 0, 0, 0>>, 8>>,      <<<<10, 0, 0, 0>>, 8>>,
              <<<<127, 0, 0, 0>>, 8>>,    <<<<169, 254, 0, 0>>, 16>>,
              <<<<172, 16, 0, 0>>, 12>>,  <<<<192, 0, 0, 0>>, 29>>,
              <<<<192, 0, 0, 170>>, 31>>, <<<<192, 0, 2, 0>>, 24>>,
              <<<<192, 168, 0, 0>>, 16>>, <<<<198, 18, 0, 0>>, 15>>,
              <<<<198, 51, 100, 0>>, 24>>, <<<<203, 0, 113, 0>>, 24>>,
              <<<<240, 0, 0, 0>>, 4>>,    <<<<255, 255, 255, 255>>, 32>> }

is_private4(a) == \E n \in Private4 : In4(a, n[1], n[2])

\* not in 100.64.0.0/10 and not private
is_global4(a) == ~In4(a, <<100, 64, 0, 0>>, 10) /\ ~is_private4(a)

is_link_local4(a) == In4(a, <<169, 254, 0, 0>>, 16)

is_loopback4(a) == In4(a, <<127, 0, 0, 0>>, 8)

\* IPv4.include_address
include_address4(a) ==
    (is_private4(a) \/ is_global4(a)) /\ ~is_link_local4(a) /\ ~is_loopback4(a)

\* IPv6Address.ipv4_mapped is not None: ::ffff:0:0/96
ipv4_mapped(a) == In6(a, <<0, 0, 0, 0, 0, 65535, 0, 0>>, 96)

\* IPv6Address.teredo is not None: 2001:0::/32
teredo(a) == In6(a, <<8193, 0, 0, 0, 0, 0, 0, 0>>, 32)

\* ipaddress._IPv6Constants._private_networks
Private6 == { <<<<0, 0, 0, 0, 0, 0, 0, 1>>, 128>>,
              <<<<0, 0, 0, 0, 0, 0, 0, 0>>, 128>>,
              <<<<0, 0, 0, 0, 0, 65535, 0, 0>>, 96>>,
              <<<<256, 0, 0, 0, 0, 0, 0, 0>>, 64>>,
              <<<<8193, 0, 0, 0, 0, 0, 0, 0>>, 23>>,
              <<<<8193, 2, 0, 0, 0, 0, 0, 0>>, 48>>,
              <<<<8193, 3512, 0, 0, 0, 0, 0, 0>>, 32>>,
              <<<<8193, 16, 0, 0, 0, 0, 0, 0>>, 28>>,
              <<<<64512, 0, 0, 0, 0, 0, 0, 0>>, 7>>,
              <<<<65152, 0, 0, 0, 0, 0, 0, 0>>, 10>> }

\* IPv6Address.is_private; an IPv4-mapped address answers for its IPv4 part.
is_private6(a) ==
    IF ipv4_mapped(a)
    THEN is_private4([v |-> 4, g |-> <<a.g[7] \div 256, a.g[7] % 256,
                                       a.g[8] \div 256, a.g[8] % 256>>])
    ELSE \E n \in Private6 : In6(a, n[1], n[2])

is_global6(a) == ~is_private6(a)

is_link_local6(a) == In6(a, <<65152, 0, 0, 0, 0, 0, 0, 0>>, 10)

is_loopback6(a) == a.g = <<0, 0, 0, 0, 0, 0, 0, 1>>

\* IPv6.include_address, with config["ipv6"]["teredo"]
include_address6(a, teredoOn) ==
    IF teredo(a) /\ ~teredoOn THEN FALSE
    ELSE /\ ~ipv4_mapped(a)
         /\ (is_private6(a) \/ is_global6(a))
         /\ ~is_link_local6(a)
         /\ ~is_loopback6(a)

\* IPv4.filter_address_list: [x for x in addresses if ...]
filter_address_list4(addrs) ==
    LET keep(x) == x.v = 4 /\ include_address4(x)
    IN  SelectSeq(addrs, keep)

\* IPv6.filter_address_list
filter_address_list6(p, teredoOn, addrs) ==
    LET keep(x) == x.v = 6 /\ include_address6(x, teredoOn)
    IN  permanent_ipv6_addresses(p, SelectSeq(addrs, keep))

(* --------------------------- AddressCollector -------------------------- *)

\* IPv4Address.__lt__ / IPv6Address.__lt__: the order of the integer values.
RECURSIVE GroupsLess(_, _, _)
GroupsLess(g, h, i) ==
    IF i > Len(g) \/ i > Len(h) THEN FALSE
    ELSE IF g[i] # h[i] THEN g[i] < h[i]
    ELSE GroupsLess(g, h, i + 1)

\* A sort that keeps one of each address only.
RECURSIVE SortAddressesUnique(_)
SortAddressesUnique(xs) ==
    IF Len(xs) = 0 THEN xs
    ELSE LET rest == SortAddressesUnique(SubSeq(xs, 1, Len(xs) - 1))
             x    == xs[Len(xs)]
             k    == Cardinality({i \in 1..Len(rest) : ~GroupsLess(x.g, rest[i].g, 1)})
         IN  IF \E i \in 1..Len(rest) : rest[i] = x THEN rest
             ELSE SubSeq(rest, 1, k) \o <<x>> \o SubSeq(rest, k + 1, Len(rest))

\* list.sort(): ascending and stable.
RECURSIVE SortAddresses(_)
SortAddresses(xs) ==
    IF Len(xs) <= 1 THEN xs
    ELSE LET rest == SortAddresses(SubSeq(xs, 1, Len(xs) - 1))
             x    == xs[Len(xs)]
             k    == Cardinality({i \in 1..Len(rest) : ~GroupsLess(x.g, rest[i].g, 1)})
         IN  SubSeq(rest, 1, k) \o <<x>> \o SubSeq(rest, k + 1, Len(rest))

\* families: IPv4 first, then IPv6, each when the configuration enables it.
Families(c) ==
    (IF c.ipv4 THEN <<"ipv4">> ELSE <<>>) \o (IF c.ipv6 THEN <<"ipv6">> ELSE <<>>)

FamilyNames(c) == {Families(c)[i] : i \in 1..Len(Families(c))}

\* [ipaddress.ip_address(addr["addr"]) for addr in ifAddresses]
ParseAll(texts) == [i \in 1..Len(texts) |-> ip_address(texts[i]).a]

AllParse(texts) == \A i \in 1..Len(texts) : ip_address(texts[i]).ok

\* family.filter_address_list of one family
filter_address_list(p, c, fam, addrs) ==
    IF fam = "ipv4" THEN filter_address_list4(addrs)
    ELSE filter_address_list6(p, c.teredo, addrs)

\* The loop over the interfaces, for one family: addresses[family.name] +=
\* the filtered addresses of each interface in turn.
RECURSIVE Accumulate(_, _, _, _)
Accumulate(p, c, fam, net) ==
    IF Len(net) = 0 THEN <<>>
    ELSE filter_address_list(p, c, fam, ParseAll(net[1][fam]))
         \o Accumulate(p, c, fam, Tail(net))

\* "Find my addresses": one sorted list per enabled family.
FindAddresses(p, c, net) ==
    [fam \in FamilyNames(c) |-> SortAddresses(Accumulate(p, c, fam, net))]

\* Whether every address text the interfaces report parses.
NetParses(c, net) ==
    \A i \in 1..Len(net) : \A fam \in FamilyNames(c) : AllParse(net[i][fam])

(* ------------------------- PublishedStateStore ------------------------- *)

NoText == [some |-> FALSE, v |-> <<>>]

SomeText(t) == [some |-> TRUE, v |-> t]

NoMap == [some |-> FALSE, object |-> FALSE, v |-> <<>>]

\* A file or a JSON value: what kind it is and, of a JSON object, the values
\* of its "hostname" and "addresses" keys.
Content(kind, hostname, addrs) ==
    [kind |-> kind, hostname |-> hostname, addresses |-> addrs]

\* No file at the cache path.
Absent == Content("absent", NoText, NoMap)

\* The file open("w") leaves: zero bytes.
Truncated == Content("empty", NoText, NoMap)

\* A file that holds the first part of a document only.
Partial == Content("partial", NoText, NoMap)

\* Python None.
None == Content("None", NoText, NoMap)

\* The document with the host name written as to_text(omit_final_dot=True).
SavedDocumentOmitFinalDot(fq, addrs) ==
    Content("dict", SomeText(SubSeq(to_text(fq), 1, Len(to_text(fq)) - 1)),
            [some |-> TRUE, object |-> TRUE,
             v |-> [fam \in DOMAIN addrs |->
                      [i \in 1..Len(addrs[fam]) |-> IPStr(addrs[fam][i])]]])

\* What json.dump writes: the host name text and, per family key, the str()
\* of each address.
SavedDocument(fq, addrs) ==
    Content("dict", SomeText(to_text(fq)),
            [some |-> TRUE, object |-> TRUE,
             v |-> [fam \in DOMAIN addrs |->
                      [i \in 1..Len(addrs[fam]) |-> IPStr(addrs[fam][i])]]])

\* cache_file.open("r") and json.load: any failure gives None.
json_load(f) ==
    IF f.kind \in {"absent", "empty", "partial", "garbage", "null"} THEN None ELSE f

\* cache_file.unlink(True): the file is gone, or OSError and it is as before.
unlink(f, ok) == IF ok THEN Absent ELSE f

\* "if cache:", the truth value of the loaded JSON value.
Truthy(c) ==
    \/ c.kind = "other"
    \/ c.kind = "dict" /\ (c.hostname.some \/ c.addresses.some)

\* The exception lines 366-371 raise on the loaded value, "none" when none.
DecodeError(c) ==
    IF ~Truthy(c) THEN "none"
    ELSE IF c.kind # "dict" THEN "AttributeError"
    ELSE IF ~c.addresses.some THEN "none"
    ELSE IF ~c.addresses.object THEN "AttributeError"
    ELSE IF \E fam \in DOMAIN c.addresses.v : ~AllParse(c.addresses.v[fam])
    THEN "ValueError"
    ELSE "none"

\* last_hostname = cache.get("hostname"), None without a cache
LastHostname(c) == IF Truthy(c) THEN c.hostname ELSE NoText

\* last_addresses: the address texts of the cache parsed, None without them
LastAddresses(c) ==
    IF Truthy(c) /\ c.addresses.some
    THEN [some |-> TRUE, object |-> TRUE,
          v |-> [fam \in DOMAIN c.addresses.v |-> ParseAll(c.addresses.v[fam])]]
    ELSE NoMap

(* ---------------------------- ChangeDetector --------------------------- *)

\* The comparison with the addresses left out.
SameHostnameAsLast(fq, addrs, lh, la) ==
    lh.some /\ lh.v = to_text(fq)

\* fqdn.to_text() == last_hostname and addresses == last_addresses
SameAsLast(fq, addrs, lh, la) ==
    /\ lh.some /\ lh.v = to_text(fq)
    /\ la.some /\ la.v = addrs

(* ---------------------------- UpdateDispatcher ------------------------- *)

knownAlgorithms == {"hmac-md5", "hmac-sha1", "hmac-sha224", "hmac-sha256",
                    "hmac-sha384", "hmac-sha512"}

\* "tsig" in config and its algorithm is not a known one
TsigUnknown(c) == c.tsig # "none" /\ c.tsig \notin knownAlgorithms

\* What one endpoint can answer: a NOERROR response, a response with another
\* rcode, or no response (OSError, dns.exception.DNSException).
Replies == {"NOERROR", "REFUSED", "OSError", "DNSException"}

\* except (OSError, dns.exception.DNSException)
Caught(r) == r \in {"OSError", "DNSException"}

\* zip(server_addresses, errors): endpoint and reason, pairwise
Zip(eps, errs) ==
    [i \in 1..(IF Len(eps) < Len(errs) THEN Len(eps) ELSE Len(errs)) |->
        <<eps[i], errs[i]>>]

\* No exception.
NoError == [type |-> "none", at |-> "none", detail |-> <<>>]

\* Any response taken for a success, its rcode not looked at.
SucceededAnyRcode(r) == r \in {"NOERROR", "REFUSED"}

\* resp.rcode() == dns.rcode.NOERROR: the update was successful
Succeeded(r) == r = "NOERROR"

(* ------------------------- what the runs are given --------------------- *)

\* socket.getfqdn()
Hostnames == { <<"h", "example", "com">>, <<"g", "example", "com">> }

Temp6 == V6(<<10752, 1, 0, 0, 0, 0, 43981, 2>>)

Perm6 == V6(<<10752, 1, 0, 0, 0, 0, 0, 1>>)

Teredo6 == V6(<<8193, 0, 1, 0, 0, 0, 0, 1>>)

Iface(v4s, v6s) ==
    [ipv4 |-> [i \in 1..Len(v4s) |-> IPStr(v4s[i])],
     ipv6 |-> [i \in 1..Len(v6s) |-> IPStr(v6s[i])]]

Loopback == Iface(<<V4(127, 0, 0, 1)>>, <<V6(<<0, 0, 0, 0, 0, 0, 0, 1>>)>>)

\* What netifaces reports: per interface and family, the address texts.
Networks ==
    { <<Loopback,
        Iface(<<V4(10, 0, 0, 5)>>, <<Temp6, Perm6, V6(<<65152, 0, 0, 0, 0, 0, 0, 1>>)>>)>>,
      <<Loopback,
        Iface(<<V4(10, 0, 0, 6)>>, <<Temp6, Perm6, V6(<<65152, 0, 0, 0, 0, 0, 0, 1>>)>>)>>,
      <<Iface(<<V4(192, 168, 1, 9), V4(10, 0, 0, 5)>>, <<Teredo6>>),
        Iface(<<V4(10, 0, 0, 5), V4(169, 254, 1, 1)>>, <<>>)>> }

Config(ipv4, ipv6, teredoOn, cacheOn, tsig) ==
    [ipv4 |-> ipv4, ipv6 |-> ipv6, teredo |-> teredoOn, cache |-> cacheOn, tsig |-> tsig]

\* The configuration files the runs are started with.
Configs ==
    { Config(TRUE, FALSE, FALSE, TRUE, "none"),
      Config(TRUE, TRUE, FALSE, TRUE, "hmac-sha256"),
      Config(FALSE, TRUE, TRUE, FALSE, "none"),
      Config(TRUE, FALSE, FALSE, TRUE, "hmac-sha3"),
      Config(FALSE, FALSE, FALSE, TRUE, "none") }

Texts(m) == [some |-> TRUE, object |-> TRUE, v |-> m]

\* The cache files a first run may find: none, unreadable ones, JSON values
\* of another shape, and documents written by hand.
InitialFiles ==
    { Absent,
      Content("garbage", NoText, NoMap),
      Content("falsy", NoText, NoMap),
      Content("other", NoText, NoMap),
      Content("dict", SomeText(<<"h", ".", "example", ".", "com", ".">>),
              [some |-> TRUE, object |-> FALSE, v |-> <<>>]),
      Content("dict", SomeText(<<"h", ".", "example", ".", "com", ".">>),
              Texts([fam \in {"ipv4"} |-> << <<"1", "0", ".", "0", ".", "0", ".", "x">> >>])),
      Content("dict", SomeText(<<"h", ".", "example", ".", "com">>),
              Texts([fam \in {"ipv4"} |-> << <<"1", "0", ".", "0", ".", "0", ".", "5">> >>])),
      Content("dict", SomeText(<<"h", ".", "example", ".", "com", ".">>), NoMap),
      Content("dict", SomeText(<<"h", ".", "example", ".", "com", ".">>),
              Texts([fam \in {"ipv4", "ipv6"} |->
                       IF fam = "ipv4"
                       THEN << <<"1", "0", ".", "0", ".", "0", ".", "5">> >>
                       ELSE << <<"2", "A", "0", "0", ":", "1", ":", "0", ":", "0", ":",
                                 "0", ":", "0", ":", "0", ":", "1">> >>])) }

(* -------------------------------- state -------------------------------- *)

VARIABLES
    platform,          \* main: the platform whose name is os.name
    hostname,          \* what socket.getfqdn() answers
    net,               \* what netifaces reports
    config,            \* config, the configuration file
    file,              \* the cache file
    pc,                \* where run() is; "idle" between two runs
    force,             \* args.force
    cache,             \* cache
    fqdn,              \* fqdn
    addresses,         \* addresses
    last_hostname,     \* last_hostname
    last_addresses,    \* last_addresses
    decision,          \* the branch taken at line 379: "Skip" or "Proceed"
    server_addresses,  \* server_addresses
    errors,            \* errors
    index,             \* the position of the for loop in server_addresses
    netlog,            \* the network calls of the run, in order
    outcome,           \* how the run ended
    error,             \* the exception that left run()
    forced_failure,    \* history: the last run was forced and delivered no update,
                       \* and host name, interfaces and configuration are as then
    delivered          \* history: the host name and addresses of the last update
                       \* an endpoint answered with NOERROR

envVars == <<platform, hostname, net, config>>

runVars == <<cache, fqdn, addresses, last_hostname, last_addresses, decision,
             server_addresses, errors, index>>

vars == <<platform, hostname, net, config, file, pc, force, cache, fqdn, addresses,
          last_hostname, last_addresses, decision, server_addresses, errors, index,
          netlog, outcome, error, forced_failure, delivered>>

\* The history of delivered updates: not kept; kept, with no update delivered
\* so far; the host name text and the addresses of the last delivered update.
NotKept == [kept |-> FALSE, some |-> FALSE, hostname |-> <<>>, addresses |-> <<>>]

NoneSent == [kept |-> TRUE, some |-> FALSE, hostname |-> <<>>, addresses |-> <<>>]

Sent(name, addrs) == [kept |-> TRUE, some |-> TRUE, hostname |-> name, addresses |-> addrs]

\* The locals of run() before its first assignment.
Fresh ==
    /\ cache = None
    /\ fqdn = <<>>
    /\ addresses = <<>>
    /\ last_hostname = NoText
    /\ last_addresses = NoMap
    /\ decision = "none"
    /\ server_addresses = <<>>
    /\ errors = <<>>
    /\ index = 0
    /\ netlog = <<>>
    /\ outcome = "none"
    /\ error = NoError

Init ==
    /\ platform \in Platforms
    /\ hostname \in Hostnames
    /\ net \in Networks
    /\ config \in Configs
    /\ file \in InitialFiles
    /\ pc = "idle"
    /\ force = FALSE
    /\ Fresh
    /\ forced_failure = FALSE
    /\ delivered = NotKept

\* An exception leaves run(); main logs "Unhandled exception".
Raise(type, at, detail) ==
    /\ pc' = "done"
    /\ outcome' = "raised"
    /\ error' = [type |-> type, at |-> at, detail |-> detail]

\* run() returns.
Return(how) ==
    /\ pc' = "done"
    /\ outcome' = how
    /\ error' = NoError

\* run() goes on.
Goto(next) ==
    /\ pc' = next
    /\ UNCHANGED <<outcome, error>>

(* --------------------------- the environment --------------------------- *)

\* The machine is given another name.
ChangeHostname(h) ==
    /\ pc = "idle"
    /\ h # hostname
    /\ hostname' = h
    /\ forced_failure' = FALSE
    /\ UNCHANGED delivered
    /\ UNCHANGED <<platform, net, config, file, pc, force, netlog, outcome, error>>
    /\ UNCHANGED runVars

\* The interfaces get other addresses.
ChangeNetwork(n) ==
    /\ pc = "idle"
    /\ n # net
    /\ net' = n
    /\ forced_failure' = FALSE
    /\ UNCHANGED delivered
    /\ UNCHANGED <<platform, hostname, config, file, pc, force, netlog, outcome, error>>
    /\ UNCHANGED runVars

\* The configuration file is edited.
EditConfig(c) ==
    /\ pc = "idle"
    /\ c # config
    /\ config' = c
    /\ forced_failure' = FALSE
    /\ UNCHANGED delivered
    /\ UNCHANGED <<platform, hostname, net, file, pc, force, netlog, outcome, error>>
    /\ UNCHANGED runVars

(* ------------------------------- run() --------------------------------- *)

\* main calls run(platform, args, config, logger); run decides the families
\* and the cache file, and returns at once when no family is enabled.
Invoke(f) ==
    /\ pc = "idle"
    /\ force' = f
    /\ IF Len(Families(config)) = 0
       THEN pc' = "done" /\ outcome' = "no_families"
       ELSE pc' = "wipe" /\ outcome' = "running"
    /\ UNCHANGED <<file, netlog, error, forced_failure, delivered>>
    /\ UNCHANGED envVars
    /\ UNCHANGED runVars

\* "Wipe the cache file if in force mode": an OSError of unlink is passed over.
WipeCache(ok) ==
    /\ pc = "wipe"
    /\ file' = IF force /\ config.cache THEN unlink(file, ok) ELSE file
    /\ Goto("load")
    /\ UNCHANGED <<force, netlog, forced_failure, delivered>>
    /\ UNCHANGED envVars
    /\ UNCHANGED runVars

\* "Load the cache file, if any", then "rip apart my hostname".
LoadCache ==
    /\ pc = "load"
    /\ cache' = IF config.cache THEN json_load(file) ELSE None
    /\ fqdn' = from_text(hostname)
    /\ Goto("soa")
    /\ UNCHANGED <<file, force, netlog, forced_failure, delivered>>
    /\ UNCHANGED envVars
    /\ UNCHANGED <<addresses, last_hostname, last_addresses, decision,
                   server_addresses, errors, index>>

\* The SOA query with the test of line 351 left out: any answer is taken.
QuerySOAAnyCount(n) ==
    /\ pc = "soa"
    /\ netlog' = Append(netlog, [op |-> "soa", to |-> 0, reply |-> "answer",
                                 records |-> n])
    /\ IF n = 0 THEN Raise("NoAnswer", "soa", <<>>) ELSE Goto("find")
    /\ UNCHANGED <<file, force, forced_failure, delivered>>
    /\ UNCHANGED envVars
    /\ UNCHANGED runVars

\* The SOA query for the zone; n is the number of SOA records of the answer,
\* 0 when the resolver has none to give and raises.
QuerySOA(n) ==
    /\ pc = "soa"
    /\ netlog' = Append(netlog, [op |-> "soa", to |-> 0, reply |-> "answer",
                                 records |-> n])
    /\ IF n = 0 THEN Raise("NoAnswer", "soa", <<>>)
       ELSE IF n # 1 THEN Raise("Exception", "soa", <<>>)
       ELSE Goto("find")
    /\ UNCHANGED <<file, force, forced_failure, delivered>>
    /\ UNCHANGED envVars
    /\ UNCHANGED runVars

\* "Find my addresses", read the cache's host name and addresses, and compare:
\* elide the update, or build it and set up its TSIG key.
Decide ==
    /\ pc = "find"
    /\ IF ~NetParses(config, net)
       THEN /\ Raise("ValueError", "interfaces", <<>>)
            /\ UNCHANGED <<addresses, last_hostname, last_addresses, decision>>
       ELSE /\ addresses' = FindAddresses(platform, config, net)
            /\ IF DecodeError(cache) # "none"
               THEN /\ Raise(DecodeError(cache), "cache", <<>>)
                    /\ UNCHANGED <<last_hostname, last_addresses, decision>>
               ELSE /\ last_hostname' = LastHostname(cache)
                    /\ last_addresses' = LastAddresses(cache)
                    /\ IF SameAsLast(fqdn, addresses', last_hostname', last_addresses')
                       THEN decision' = "Skip" /\ Return("elided")
                       ELSE /\ decision' = "Proceed"
                            /\ IF TsigUnknown(config)
                               THEN Raise("ValueError", "tsig", <<>>)
                               ELSE Goto("resolve")
    /\ UNCHANGED <<file, force, netlog, forced_failure, delivered>>
    /\ UNCHANGED envVars
    /\ UNCHANGED <<cache, fqdn, server_addresses, errors, index>>

\* socket.getaddrinfo(server, "domain"): n endpoints, or gaierror (n = 0).
Resolve(n) ==
    /\ pc = "resolve"
    /\ netlog' = Append(netlog, [op |-> "getaddrinfo", to |-> 0, reply |-> "answer"])
    /\ IF n = 0
       THEN Raise("gaierror", "getaddrinfo", <<>>) /\ UNCHANGED <<server_addresses, index>>
       ELSE /\ server_addresses' = [i \in 1..n |-> i]
            /\ index' = 1
            /\ Goto("send")
    /\ errors' = <<>>
    /\ UNCHANGED <<file, force, forced_failure, delivered>>
    /\ UNCHANGED envVars
    /\ UNCHANGED <<cache, fqdn, addresses, last_hostname, last_addresses, decision>>

\* The loop without its break: after a NOERROR answer the update is sent to
\* the remaining endpoints as well.
SendUpdateNoBreak(r) ==
    /\ pc = "send"
    /\ netlog' = Append(netlog, [op |-> "update", to |-> server_addresses[index],
                                 reply |-> r])
    /\ IF Succeeded(r) /\ index = Len(server_addresses)
       THEN /\ IF config.cache THEN Goto("open") ELSE Return("updated")
            /\ UNCHANGED <<errors, index>>
       ELSE IF Succeeded(r)
       THEN Goto("send") /\ index' = index + 1 /\ UNCHANGED errors
       ELSE IF ~Caught(r)
       THEN Raise("Exception", "send", <<>>) /\ UNCHANGED <<errors, index>>
       ELSE /\ errors' = Append(errors, r)
            /\ IF index = Len(server_addresses)
               THEN /\ Raise("Exception", "send", Zip(server_addresses, errors'))
                    /\ UNCHANGED index
               ELSE Goto("send") /\ index' = index + 1
    /\ UNCHANGED <<file, force, forced_failure>>
    /\ delivered' = IF Succeeded(r) /\ delivered.kept
                    THEN Sent(to_text(fqdn), addresses)
                    ELSE delivered
    /\ UNCHANGED envVars
    /\ UNCHANGED <<cache, fqdn, addresses, last_hostname, last_addresses, decision,
                   server_addresses>>

\* One turn of the loop over server_addresses: the update goes to the
\* endpoint, which answers r.
SendUpdate(r) ==
    /\ pc = "send"
    /\ netlog' = Append(netlog, [op |-> "update", to |-> server_addresses[index],
                                 reply |-> r])
    /\ IF Succeeded(r)
       THEN /\ IF config.cache THEN Goto("open") ELSE Return("updated")
            /\ UNCHANGED <<errors, index>>
       ELSE IF ~Caught(r)
       THEN Raise("Exception", "send", <<>>) /\ UNCHANGED <<errors, index>>
       ELSE /\ errors' = Append(errors, r)
            /\ IF index = Len(server_addresses)
               THEN /\ Raise("Exception", "send", Zip(server_addresses, errors'))
                    /\ UNCHANGED index
               ELSE Goto("send") /\ index' = index + 1
    /\ UNCHANGED <<file, force, forced_failure>>
    /\ delivered' = IF Succeeded(r) /\ delivered.kept
                    THEN Sent(to_text(fqdn), addresses)
                    ELSE delivered
    /\ UNCHANGED envVars
    /\ UNCHANGED <<cache, fqdn, addresses, last_hostname, last_addresses, decision,
                   server_addresses>>

\* cache_file.open("w"): the file is created or cut to nothing, or OSError.
OpenCache(ok) ==
    /\ pc = "open"
    /\ IF ok
       THEN file' = Truncated /\ Goto("dump")
       ELSE file' = file /\ Raise("OSError", "open", <<>>)
    /\ UNCHANGED <<force, netlog, forced_failure, delivered>>
    /\ UNCHANGED envVars
    /\ UNCHANGED runVars

\* The buffer is written out before json.dump has produced the whole document.
FlushPartial ==
    /\ pc = "dump"
    /\ file = Truncated
    /\ file' = Partial
    /\ Goto("dump")
    /\ UNCHANGED <<force, netlog, forced_failure, delivered>>
    /\ UNCHANGED envVars
    /\ UNCHANGED runVars

\* json.dump and the close of the file: the document is in the file, or an
\* OSError of a write leaves what was written so far.
DumpCache(ok) ==
    /\ pc = "dump"
    /\ IF ok
       THEN file' = SavedDocument(fqdn, addresses) /\ Return("updated")
       ELSE file' = file /\ Raise("OSError", "dump", <<>>)
    /\ UNCHANGED <<force, netlog, forced_failure, delivered>>
    /\ UNCHANGED envVars
    /\ UNCHANGED runVars

\* The locals of run() are gone with the process.
Forget ==
    /\ force' = FALSE
    /\ cache' = None
    /\ fqdn' = <<>>
    /\ addresses' = <<>>
    /\ last_hostname' = NoText
    /\ last_addresses' = NoMap
    /\ decision' = "none"
    /\ server_addresses' = <<>>
    /\ errors' = <<>>
    /\ index' = 0
    /\ netlog' = <<>>
    /\ outcome' = "none"
    /\ error' = NoError

\* The process is ended from outside (a signal) wherever run() is.
Terminate ==
    /\ pc \notin {"idle", "done"}
    /\ pc' = "idle"
    /\ Forget
    /\ forced_failure' = FALSE
    /\ UNCHANGED delivered
    /\ UNCHANGED file
    /\ UNCHANGED envVars

\* Whether an endpoint answered NOERROR in this run.
Delivered ==
    \E i \in 1..Len(netlog) : netlog[i].op = "update" /\ netlog[i].reply = "NOERROR"

\* Whether the run ended in a resolution error or with its endpoints failing.
UpdateFailed ==
    outcome = "raised" /\ error.at \in {"soa", "getaddrinfo", "send"}

\* main returns and the process ends; its locals are gone.
Exit ==
    /\ pc = "done"
    /\ pc' = "idle"
    /\ Forget
    /\ forced_failure' = (force /\ UpdateFailed)
    /\ UNCHANGED delivered
    /\ UNCHANGED file
    /\ UNCHANGED envVars

Next ==
    \/ \E h \in Hostnames : ChangeHostname(h)
    \/ \E n \in Networks : ChangeNetwork(n)
    \/ \E c \in Configs : EditConfig(c)
    \/ \E f \in BOOLEAN : Invoke(f)
    \/ \E ok \in BOOLEAN : WipeCache(ok)
    \/ LoadCache
    \/ \E n \in 0..MaxSOA : QuerySOA(n)
    \/ Decide
    \/ \E n \in 0..MaxEndpoints : Resolve(n)
    \/ \E r \in Replies : SendUpdate(r)
    \/ \E ok \in BOOLEAN : OpenCache(ok)
    \/ FlushPartial
    \/ \E ok \in BOOLEAN : DumpCache(ok)
    \/ Terminate
    \/ Exit

Spec == Init /\ [][Next]_vars

(* ------------------- "Find my addresses", step by step ------------------ *)

\* IPv4 addresses of every kind the ipaddress properties tell apart.
Probe4 ==
    { V4(10, 0, 0, 5), V4(8, 8, 8, 8), V4(127, 0, 0, 1), V4(169, 254, 1, 1),
      V4(100, 64, 0, 1), V4(240, 0, 0, 1), V4(224, 0, 0, 1),
      V4(255, 255, 255, 255), V4(0, 0, 0, 0), V4(192, 0, 0, 9) }

\* IPv6 addresses of every kind the ipaddress properties tell apart.
Probe6 ==
    { V6(<<0, 0, 0, 0, 0, 0, 0, 0>>), V6(<<0, 0, 0, 0, 0, 0, 0, 1>>),
      V6(<<0, 0, 0, 0, 0, 65535, 258, 772>>), V6(<<256, 0, 0, 0, 0, 0, 0, 1>>),
      V6(<<64512, 0, 0, 0, 0, 0, 0, 1>>), V6(<<65152, 0, 0, 0, 0, 0, 0, 1>>),
      V6(<<65282, 0, 0, 0, 0, 0, 0, 1>>), Teredo6, Temp6, Perm6 }

SeqsUpTo(S, n) == UNION { [1..k -> S] : k \in 0..n }

\* One interface with addresses of one family, in any order.
ProbeIfaces ==
    { Iface(v4s, <<>>) : v4s \in SeqsUpTo(Probe4, MaxIfaceLen) }
      \cup { Iface(<<>>, v6s) : v6s \in SeqsUpTo(Probe6, MaxIfaceLen) }

\* Interfaces with addresses of both families, some of them shared.
PairIfaces ==
    { Loopback,
      Iface(<<V4(10, 0, 0, 5)>>, <<Temp6, Perm6>>),
      Iface(<<V4(8, 8, 8, 8), V4(10, 0, 0, 5)>>, <<Perm6>>),
      Iface(<<V4(10, 0, 0, 5), V4(169, 254, 1, 1)>>, <<Teredo6, Perm6>>) }

ProbeNetworks ==
    { <<i>> : i \in ProbeIfaces } \cup { <<i, j>> : i \in PairIfaces, j \in PairIfaces }

\* The configurations with a family enabled, as far as collection reads them.
CollectConfigs ==
    { Config(TRUE, FALSE, FALSE, TRUE, "none"),
      Config(FALSE, TRUE, FALSE, TRUE, "none"),
      Config(FALSE, TRUE, TRUE, TRUE, "none"),
      Config(TRUE, TRUE, FALSE, TRUE, "none") }

\* run() has come to "Find my addresses".
CollectInit ==
    /\ platform \in Platforms
    /\ hostname = <<"h", "example", "com">>
    /\ net \in ProbeNetworks
    /\ config \in CollectConfigs
    /\ file = Absent
    /\ pc = "find"
    /\ force = FALSE
    /\ cache = None
    /\ fqdn = from_text(hostname)
    /\ addresses = <<>>
    /\ last_hostname = NoText
    /\ last_addresses = NoMap
    /\ decision = "none"
    /\ server_addresses = <<>>
    /\ errors = <<>>
    /\ index = 0
    /\ netlog = <<[op |-> "soa", to |-> 0, reply |-> "answer", records |-> 1]>>
    /\ outcome = "running"
    /\ error = NoError
    /\ forced_failure = FALSE
    /\ delivered = NotKept

\* addresses = {family.name: [] for family in families}
BeginCollect ==
    /\ pc = "find"
    /\ addresses' = [fam \in FamilyNames(config) |-> <<>>]
    /\ index' = 1
    /\ pc' = "interfaces"
    /\ UNCHANGED <<file, force, netlog, outcome, error, forced_failure, delivered>>
    /\ UNCHANGED envVars
    /\ UNCHANGED <<cache, fqdn, last_hostname, last_addresses, decision,
                   server_addresses, errors>>

\* One interface of the loop: each family's list gets the interface's
\* addresses that the family's filter_address_list lets through.
CollectInterface ==
    /\ pc = "interfaces"
    /\ index <= Len(net)
    /\ addresses' =
          [fam \in DOMAIN addresses |->
             addresses[fam]
               \o filter_address_list(platform, config, fam, ParseAll(net[index][fam]))]
    /\ index' = index + 1
    /\ UNCHANGED <<file, pc, force, netlog, outcome, error, forced_failure, delivered>>
    /\ UNCHANGED envVars
    /\ UNCHANGED <<cache, fqdn, last_hostname, last_addresses, decision,
                   server_addresses, errors>>

\* for family in families: addresses[family.name].sort()
SortCollected ==
    /\ pc = "interfaces"
    /\ index > Len(net)
    /\ addresses' = [fam \in DOMAIN addresses |-> SortAddresses(addresses[fam])]
    /\ pc' = "collected"
    /\ UNCHANGED <<file, force, index, netlog, outcome, error, forced_failure, delivered>>
    /\ UNCHANGED envVars
    /\ UNCHANGED <<cache, fqdn, last_hostname, last_addresses, decision,
                   server_addresses, errors>>

CollectNext ==
    \/ BeginCollect
    \/ CollectInterface
    \/ SortCollected

CollectSpec == CollectInit /\ [][CollectNext]_vars

\* The steps of the collection come to what Decide computes in one step.
CollectAgrees ==
    pc = "collected" => addresses = FindAddresses(platform, config, net)

(* ------------- runs against one cache file that starts absent ---------- *)

\* One machine and one configuration with the cache enabled; no cache file
\* yet and no update delivered yet. The history of delivered updates is kept.
SkipInit ==
    /\ platform = "posix"
    /\ hostname \in Hostnames
    /\ net \in Networks
    /\ config = Config(TRUE, FALSE, FALSE, TRUE, "none")
    /\ file = Absent
    /\ pc = "idle"
    /\ force = FALSE
    /\ Fresh
    /\ forced_failure = FALSE
    /\ delivered = NoneSent

\* Runs one after the other, each to its end, the host name and the
\* interfaces changing between them.
SkipNext ==
    \/ \E h \in Hostnames : ChangeHostname(h)
    \/ \E n \in Networks : ChangeNetwork(n)
    \/ \E f \in BOOLEAN : Invoke(f)
    \/ \E ok \in BOOLEAN : WipeCache(ok)
    \/ LoadCache
    \/ \E n \in 0..MaxSOA : QuerySOA(n)
    \/ Decide
    \/ \E n \in 0..MaxEndpoints : Resolve(n)
    \/ \E r \in Replies : SendUpdate(r)
    \/ \E ok \in BOOLEAN : OpenCache(ok)
    \/ FlushPartial
    \/ \E ok \in BOOLEAN : DumpCache(ok)
    \/ Exit

SkipSpec == SkipInit /\ [][SkipNext]_vars

(* ------------------------------- claims -------------------------------- *)

\* The update transmissions of the run so far.
Attempts == SelectSeq(netlog, LAMBDA e : e.op = "update")

\* Whether run() has passed line 379 without the file having been opened for
\* writing: the file is the one the cache was loaded from.
Decided ==
    /\ decision # "none"
    /\ \/ pc \in {"resolve", "send"}
       \/ pc = "done" /\ outcome = "elided"
       \/ pc = "done" /\ outcome = "raised" /\ error.at \in {"tsig", "getaddrinfo", "send"}

\* C1: a step writes content to the cache file only in a run in which an
\* endpoint has answered the update with NOERROR; runs that skip or fail
\* before or during dispatch write nothing (a forced run may remove the file).
C1_SaveOnlyAfterSuccess ==
    [][(file' # file /\ file' # Absent) => Delivered]_vars

C1_Witness ==
    /\ pc = "done" /\ outcome = "updated" /\ Delivered
    /\ file = SavedDocument(fqdn, addresses)

\* C2: every failed attempt, a network-level error or a non-success status
\* alike, is recorded in errors, and the run goes on to the next endpoint: it
\* ends only with an update delivered or with every endpoint attempted.
C2_Failover ==
    Len(server_addresses) > 0 =>
        /\ pc = "done" => (Delivered \/ Len(Attempts) = Len(server_addresses))
        /\ Delivered => Len(errors) = Len(Attempts) - 1

\* C3: when an attempt has failed and the run ends without an update
\* delivered, all N endpoints were attempted in order and the error names each
\* endpoint with its own failure reason.
C3_AggregateError ==
    (pc = "done" /\ Len(Attempts) > 0 /\ ~Delivered) =>
        /\ Len(Attempts) = Len(server_addresses)
        /\ \A i \in 1..Len(Attempts) : Attempts[i].to = server_addresses[i]
        /\ outcome = "raised"
        /\ error.detail = [i \in 1..Len(Attempts) |-> <<Attempts[i].to, Attempts[i].reply>>]

\* C4: a run invoked with the force flag never decides Skip.
C4_ForceProceeds == force => decision # "Skip"

\* C5: the run after a forced run whose update failed, with host name,
\* interfaces and configuration as they were, does not decide Skip.
C5_ProceedAfterForcedFailure == forced_failure => decision # "Skip"

\* The file holds a state whose host name is the text of the current fully
\* qualified name and whose addresses, parsed, are the current AddressSet:
\* the same family keys and per family the same sequence.
PriorStateMatches ==
    /\ config.cache
    /\ file.kind = "dict"
    /\ file.hostname.some /\ file.hostname.v = to_text(fqdn)
    /\ file.addresses.some /\ file.addresses.object
    /\ DOMAIN file.addresses.v = DOMAIN addresses
    /\ \A fam \in DOMAIN addresses :
          /\ Len(file.addresses.v[fam]) = Len(addresses[fam])
          /\ \A i \in 1..Len(addresses[fam]) :
                /\ ip_address(file.addresses.v[fam][i]).ok
                /\ ip_address(file.addresses.v[fam][i]).a = addresses[fam][i]

\* C6: a run without the force flag decides Skip exactly when the cache file
\* holds a prior state with the current host name and an AddressSet equal to
\* the current one; otherwise it decides Proceed.
C6_SkipIffSameState ==
    (Decided /\ ~force) => (decision = "Skip" <=> PriorStateMatches)

C6_Witness ==
    /\ Decided /\ ~force /\ decision = "Skip" /\ PriorStateMatches

\* C7: a run that decides Skip has made no network call.
C7_SkipWithoutNetwork == decision = "Skip" => netlog = <<>>

\* C8: no error from reading the cache leaves run(): an unreadable or corrupt
\* cache is no prior state.
C8_LoadIsBestEffort == (pc = "done" /\ outcome = "raised") => error.at # "cache"

\* C9: a run that is terminated leaves the cache file neither empty nor
\* partially written.
C9_AtomicReplace ==
    [][(pc \notin {"idle", "done"} /\ pc' = "idle") =>
          file'.kind \notin {"empty", "partial"}]_vars

\* C10: when the cache file holds what a save of the current host name and
\* AddressSet writes, a run without the force flag reads back an equal state
\* and decides Skip.
C10_RoundTrip ==
    (Decided /\ ~force /\ config.cache /\ file = SavedDocument(fqdn, addresses))
        => decision = "Skip"

C10_Witness ==
    /\ Decided /\ ~force /\ config.cache
    /\ file = SavedDocument(fqdn, addresses)
    /\ decision = "Skip"
    /\ "ipv6" \in DOMAIN addresses
    /\ Len(addresses["ipv6"]) > 0

\* C11: with a TSIG algorithm outside knownAlgorithms every run ends with the
\* ValueError of the TSIG set-up, and ends with no network call made: before
\* the SOA query and before any update.
C11_TsigErrorBeforeNetwork ==
    (TsigUnknown(config) /\ pc = "done") =>
        /\ outcome = "raised" /\ error.at = "tsig"
        /\ netlog = <<>>

\* C12: with no family enabled the run ends with an exception leaving run(),
\* not with a return, and makes no network call.
C12_NoFamiliesFails ==
    (pc = "done" /\ Len(Families(config)) = 0) =>
        /\ outcome = "raised"
        /\ netlog = <<>>

\* The SOA query of the run was answered with no or with several records.
SOANotSingle ==
    \E i \in 1..Len(netlog) : netlog[i].op = "soa" /\ netlog[i].records # 1

\* C13: once the SOA query has returned zero or more than one record the run
\* has failed with an exception, no update is sent to any endpoint and no step
\* of the run changes the cache file.
C13_SOAHardError ==
    /\ [](SOANotSingle =>
            /\ pc = "done" /\ outcome = "raised" /\ error.at = "soa"
            /\ Attempts = <<>>)
    /\ [][SOANotSingle => file' = file]_vars

C13_Witness ==
    /\ SOANotSingle /\ pc = "done"
    /\ netlog[Len(netlog)].records = 2
    /\ file.kind = "dict"

\* The addresses the interface at hand reports for a family.
Reported(fam) == ParseAll(net[index][fam])

\* The step is the loop's handling of one interface with the family enabled.
InterfaceStep(fam) ==
    /\ pc = "interfaces" /\ pc' = "interfaces"
    /\ fam \in DOMAIN addresses

\* An address is loopback (127.0.0.0/8) or its leading octet is 240 or more.
Rejected4(a) == a.g[1] = 127 \/ a.g[1] >= 240

\* C14: the IPv4 filter lets through exactly the addresses that are neither
\* loopback nor of a leading octet of 240 or more, private, link-local and
\* shared ones among them: of every interface, the subsequence of these
\* addresses is what is added to the IPv4 list.
C14_IPv4Eligibility ==
    [][InterfaceStep("ipv4") =>
         addresses'["ipv4"] =
           addresses["ipv4"] \o SelectSeq(Reported("ipv4"), LAMBDA a : ~Rejected4(a))]_vars

\* a is in one of the ranges: unspecified, loopback, IPv4-mapped, discard
\* prefix, unique-local, link-local, multicast.
AlwaysExcluded6(a) ==
    \/ a.g = <<0, 0, 0, 0, 0, 0, 0, 0>>
    \/ a.g = <<0, 0, 0, 0, 0, 0, 0, 1>>
    \/ In6(a, <<0, 0, 0, 0, 0, 65535, 0, 0>>, 96)
    \/ In6(a, <<256, 0, 0, 0, 0, 0, 0, 0>>, 64)
    \/ In6(a, <<64512, 0, 0, 0, 0, 0, 0, 0>>, 7)
    \/ In6(a, <<65152, 0, 0, 0, 0, 0, 0, 0>>, 10)
    \/ In6(a, <<65280, 0, 0, 0, 0, 0, 0, 0>>, 8)

\* Eligible as C15 has it: not in an always excluded range, and not a Teredo
\* address (2001:0000::/32) unless the Teredo flag is on.
Eligible6(a) ==
    /\ ~AlwaysExcluded6(a)
    /\ In6(a, <<8193, 0, 0, 0, 0, 0, 0, 0>>, 32) => config.teredo

\* C15: of every interface the IPv6 filter keeps exactly the addresses that
\* are not unspecified, loopback, IPv4-mapped, discard-prefix, unique-local,
\* link-local or multicast, a Teredo address only with the Teredo flag on;
\* what the platform takes for permanent among these is added to the IPv6 list.
C15_IPv6Eligibility ==
    [][InterfaceStep("ipv6") =>
         addresses'["ipv6"] =
           addresses["ipv6"]
             \o permanent_ipv6_addresses(platform,
                   SelectSeq(Reported("ipv6"), LAMBDA a : Eligible6(a)))]_vars

\* The IPv6 addresses of the interface at hand that include_address lets
\* through, in the order reported: what permanent_ipv6_addresses is given.
Kept6(i) ==
    SelectSeq(ParseAll(net[i]["ipv6"]), LAMBDA a : include_address6(a, config.teredo))

\* The permanent addresses of a list as C16 has them.
Permanent(xs) ==
    IF Len(xs) = 0 THEN <<>>
    ELSE IF Len(xs) = 1 THEN xs
    ELSE IF platform = "posix" THEN <<xs[Len(xs)]>>
    ELSE IF platform = "nt" THEN <<xs[1]>>
    ELSE xs

\* C16: of the eligible IPv6 addresses of an interface, in order, nothing is
\* added when there is none and the one when there is one; otherwise POSIX
\* adds exactly the last, Windows exactly the first and an unknown platform
\* all of them, unchanged.
C16_PermanentReduction ==
    [][InterfaceStep("ipv6") =>
         addresses'["ipv6"] = addresses["ipv6"] \o Permanent(Kept6(index))]_vars

C16_Witness ==
    /\ pc = "interfaces" /\ index = 2
    /\ platform = "posix"
    /\ "ipv6" \in DOMAIN addresses
    /\ Len(Kept6(1)) = 2
    /\ Kept6(1)[1] # Kept6(1)[2]
    /\ addresses["ipv6"] = <<Kept6(1)[2]>>

\* How often x occurs in xs.
Count(x, xs) == Cardinality({i \in 1..Len(xs) : xs[i] = x})

\* The addresses the interfaces report for a family.
ReportedAnywhere(fam) ==
    UNION { {ParseAll(net[i][fam])[j] : j \in 1..Len(net[i][fam])} : i \in 1..Len(net) }

\* C19: when collection is done there is one key per enabled family and none
\* for a disabled one; each list is sorted ascending and holds every address
\* as many times as the family's filter passed it, summed over the interfaces:
\* nothing is deduplicated.
C19_CollectedMultiset ==
    pc = "collected" =>
        /\ DOMAIN addresses = FamilyNames(config)
        /\ \A fam \in DOMAIN addresses :
              LET passed == Accumulate(platform, config, fam, net)
                  found  == addresses[fam]
              IN  /\ \A i \in 1..(Len(found) - 1) :
                        ~GroupsLess(found[i + 1].g, found[i].g, 1)
                  /\ Len(found) = Len(passed)
                  /\ \A x \in ReportedAnywhere(fam) : Count(x, found) = Count(x, passed)

C19_Witness ==
    /\ pc = "collected" /\ Len(net) = 2
    /\ DOMAIN addresses = {"ipv4"}
    /\ Len(addresses["ipv4"]) = 3
    /\ addresses["ipv4"][1] # addresses["ipv4"][2]
    /\ addresses["ipv4"][2] = addresses["ipv4"][3]

\* The labels of the host name joined by ".", with no "." at the end.
WithoutFinalDot(name) == Join([i \in 1..(Len(name) - 1) |-> <<name[i]>>], ".")

\* C17: after a run that decided Proceed and whose update was delivered and
\* saved, the cache file holds the record of the external format: the fully
\* qualified name without its trailing dot, and the current AddressSet with
\* one key per enabled family, an empty list for a family without addresses.
C17_SavedRecord ==
    (pc = "done" /\ outcome = "updated" /\ decision = "Proceed" /\ config.cache) =>
        /\ file.kind = "dict"
        /\ file.hostname = SomeText(WithoutFinalDot(fqdn))
        /\ file.addresses.some /\ file.addresses.object
        /\ DOMAIN file.addresses.v = FamilyNames(config)
        /\ \A fam \in FamilyNames(config) :
              file.addresses.v[fam] =
                [i \in 1..Len(addresses[fam]) |-> IPStr(addresses[fam][i])]

\* C18: the updates of a run go to the resolved endpoints in their order, one
\* to each at most, so there are never more than N of them; an endpoint that
\* answers NOERROR is the last one tried, so at most one update of a run
\* succeeds and the loop is left at once.
C18_OneAttemptEach ==
    /\ Len(Attempts) <= Len(server_addresses)
    /\ \A i \in 1..Len(Attempts) :
          /\ Attempts[i].to = server_addresses[i]
          /\ Attempts[i].reply = "NOERROR" => i = Len(Attempts)
    /\ \A i \in 1..Len(server_addresses) : \A j \in 1..Len(server_addresses) :
          server_addresses[i] = server_addresses[j] => i = j
    /\ Delivered => pc # "send"

C18_Witness ==
    /\ pc = "done" /\ Delivered
    /\ Len(server_addresses) = 2
    /\ Len(Attempts) = 1

\* C20: whenever a run decides Skip, the last update an endpoint answered
\* with NOERROR carried the host name and the AddressSet the run has now.
C20_SkipSound ==
    decision = "Skip" =>
        /\ delivered.some
        /\ delivered.hostname = to_text(fqdn)
        /\ delivered.addresses = addresses

====
